---- MODULE Spec2Model ----
(***************************************************************************)
(* Model of app/llm_generator.py: attachment decoding and summarising,     *)
(* prompt construction, the remote call, response extraction and the       *)
(* fallback substitution of generate_app_code.                             *)
(*                                                                         *)
(* Strings are sequences of lexemes.  A lexeme is a literal piece of text  *)
(* (one character, or a longer literal such as "data:" or a fixed piece of *)
(* a template).  Every needle the code searches for ("data:", ",", ";",    *)
(* the code fence, "---README.md---", "\n", a leading "<", a file extension) occurs *)
(* in the modelled strings only as a whole lexeme, so that split, strip,   *)
(* startswith, endswith and "in" on lexeme sequences agree with the same   *)
(* operations on the characters.                                           *)
(***************************************************************************)
EXTENDS Integers, Sequences, FiniteSets, TLC

VARIABLES call, pc, brief, attachments, checks, round_num, prev_readme,
          i, saved, fs, j, summaries, attachments_meta, user_prompt,
          response, text, code_part, readme_part, result, raised

vars == <<call, pc, brief, attachments, checks, round_num, prev_readme,
          i, saved, fs, j, summaries, attachments_meta, user_prompt,
          response, text, code_part, readme_part, result, raised>>

(* ------------------------------ bounds --------------------------------- *)
MaxAtts == 2
MaxTextLen == 4

(* ------------------------- generic string helpers ---------------------- *)
NL == "\n"
ESC_NL == "\\n"
\* the three-backquote delimiter; the backquote cannot be written in a TLA+
\* string, so the lexeme is spelled with tildes
FENCE == "~~~"
MARKER == "---README.md---"

IsSpace(l) == l \in {" ", NL, "\t", "\r"}

Min(a, b) == IF a < b THEN a ELSE b

Take(s, n) == SubSeq(s, 1, Min(n, Len(s)))

Drop(s, n) == SubSeq(s, n + 1, Len(s))

RECURSIVE LStrip(_)
LStrip(s) == IF s # <<>> /\ IsSpace(Head(s)) THEN LStrip(Tail(s)) ELSE s

RECURSIVE RStrip(_)
RStrip(s) == IF s # <<>> /\ IsSpace(s[Len(s)]) THEN RStrip(SubSeq(s, 1, Len(s) - 1)) ELSE s

Strip(s) == RStrip(LStrip(s))

Contains(s, l) == \E k \in 1..Len(s) : s[k] = l

ContainsSeq(s, sub) == \E k \in 0..(Len(s) - Len(sub)) : SubSeq(s, k + 1, k + Len(sub)) = sub

IndexOf(s, l) == CHOOSE k \in 1..Len(s) : s[k] = l /\ \A m \in 1..(k - 1) : s[m] # l

RECURSIVE Split(_, _)
Split(s, l) ==
  IF ~Contains(s, l) THEN <<s>>
  ELSE LET k == IndexOf(s, l) IN <<SubSeq(s, 1, k - 1)>> \o Split(Drop(s, k), l)

Split1(s, l) ==
  IF ~Contains(s, l) THEN <<s>>
  ELSE LET k == IndexOf(s, l) IN <<SubSeq(s, 1, k - 1), Drop(s, k)>>

RECURSIVE Join(_, _)
Join(sep, ss) ==
  IF ss = <<>> THEN <<>>
  ELSE IF Len(ss) = 1 THEN ss[1]
  ELSE ss[1] \o <<sep>> \o Join(sep, Tail(ss))

RECURSIVE Without(_, _)
Without(s, l) ==
  IF s = <<>> THEN <<>>
  ELSE IF Head(s) = l THEN Without(Tail(s), l)
  ELSE <<Head(s)>> \o Without(Tail(s), l)

LT_LEXEMES == {"<", "</p>\n  </body>\n</html>"}

StartsWithLt(s) == s # <<>> /\ s[1] \in LT_LEXEMES

(* ------------------------------ base64 --------------------------------- *)
B64_ALPHABET ==
  <<"A", "B", "C", "D", "E", "F", "G", "H", "I", "J", "K", "L", "M", "N", "O", "P",
     "Q", "R", "S", "T", "U", "V", "W", "X", "Y", "Z", "a", "b", "c", "d", "e", "f",
     "g", "h", "i", "j", "k", "l", "m", "n", "o", "p", "q", "r", "s", "t", "u", "v",
     "w", "x", "y", "z", "0", "1", "2", "3", "4", "5", "6", "7", "8", "9", "+", "/">>

B64Val(c) == IF \E k \in 1..64 : B64_ALPHABET[k] = c
             THEN (CHOOSE k \in 1..64 : B64_ALPHABET[k] = c) - 1
             ELSE 64

RECURSIVE a2b_base64(_, _, _, _, _, _)
a2b_base64(s, k, quad_pos, leftchar, pads, out) ==
  IF k > Len(s)
  THEN IF quad_pos # 0 THEN [ok |-> FALSE, data |-> <<>>] ELSE [ok |-> TRUE, data |-> out]
  ELSE IF s[k] = "="
  THEN IF quad_pos >= 2 /\ quad_pos + pads + 1 >= 4
       THEN [ok |-> TRUE, data |-> out]
       ELSE a2b_base64(s, k + 1, quad_pos, leftchar, IF quad_pos >= 2 THEN pads + 1 ELSE pads, out)
  ELSE LET c == B64Val(s[k]) IN
       IF c >= 64 THEN a2b_base64(s, k + 1, quad_pos, leftchar, pads, out)
       ELSE CASE quad_pos = 0 -> a2b_base64(s, k + 1, 1, c, 0, out)
              [] quad_pos = 1 -> a2b_base64(s, k + 1, 2, c % 16, 0, Append(out, leftchar * 4 + c \div 16))
              [] quad_pos = 2 -> a2b_base64(s, k + 1, 3, c % 4, 0, Append(out, leftchar * 16 + c \div 4))
              [] OTHER -> a2b_base64(s, k + 1, 0, 0, 0, Append(out, leftchar * 64 + c))

b64decode(s) == a2b_base64(s, 1, 0, 0, 0, <<>>)

(* ----------------------- text-mode reading of a file ------------------- *)
ASCII_PRINTABLE ==
  <<" ", "!", "\"", "#", "$", "%", "&", "'", "(", ")", "*", "+", ",", "-", ".", "/",
     "0", "1", "2", "3", "4", "5", "6", "7", "8", "9", ":", ";", "<", "=", ">", "?",
     "@", "A", "B", "C", "D", "E", "F", "G", "H", "I", "J", "K", "L", "M", "N", "O",
     "P", "Q", "R", "S", "T", "U", "V", "W", "X", "Y", "Z", "[", "\\", "]", "^", "_",
     "BACKQUOTE", "a", "b", "c", "d", "e", "f", "g", "h", "i", "j", "k", "l", "m", "n", "o",
     "p", "q", "r", "s", "t", "u", "v", "w", "x", "y", "z", "{", "|", "}", "~">>

Chr(b) == IF b = 10 THEN NL
          ELSE IF b = 9 THEN "\t"
          ELSE IF b >= 32 /\ b <= 126 THEN ASCII_PRINTABLE[b - 31]
          ELSE "?"

RECURSIVE DecodeUtf8Ignore(_)
DecodeUtf8Ignore(bytes) ==
  IF bytes = <<>> THEN <<>>
  ELSE IF Head(bytes) >= 128 THEN DecodeUtf8Ignore(Tail(bytes))
  ELSE <<Chr(Head(bytes))>> \o DecodeUtf8Ignore(Tail(bytes))

(* ------------------------------ inputs --------------------------------- *)
\* attachment names, as {stem, extension} lexemes; the empty name stands for a
\* missing or empty "name" key
N_CSV == <<"x", ".csv">>
N_TXT == <<"n", ".txt">>
N_PNG == <<"img", ".png">>
N_SUB == <<"sub", "/", "x">>

\* urls: header lexemes, then the payload one base64 character per lexeme
H_CSV == <<"data:", "text", "/csv", ";", "base64">>
H_TXT == <<"data:", "text", "/plain", ";", "base64">>
H_PNG == <<"data:", "image", "/png", ";", "base64">>

Attachment(n, u) == [name |-> n, url |-> u]

AttachmentPool ==
  { Attachment(N_CSV, H_CSV \o <<",", "Y", "Q", "o", "=">>),
    Attachment(N_CSV, H_CSV \o <<",", "Q", "Q", "=", "=">>),
    Attachment(N_CSV, H_CSV \o <<",">>),
    Attachment(N_TXT, H_TXT \o <<",", "Y", "Q", "o", "=">>),
    Attachment(N_PNG, H_PNG \o <<",", "Q", "U", "I", "=">>),
    Attachment(<<>>, H_TXT \o <<",", "Q", "Q">>),
    Attachment(<<>>, H_PNG \o <<",", "Q", "Q", "=", "=">>),
    Attachment(N_TXT, H_TXT),
    Attachment(N_PNG, <<"http://x/y", ",", "Q", "Q", "=", "=">>),
    Attachment(N_SUB, H_TXT \o <<",", "Q", "Q", "=", "=">>) }

RECURSIVE SeqsUpTo(_, _)
SeqsUpTo(S, n) ==
  IF n = 0 THEN {<<>>}
  ELSE LET shorter == SeqsUpTo(S, n - 1)
       IN shorter \cup {Append(q, x) : q \in shorter, x \in S}

(* -------------------------- decode_attachments ------------------------- *)
TMP_DIR == "/tmp/llm_attachments"

PathJoin(dir, name) == <<dir, "/">> \o name

\* the code creates TMP_DIR and nothing below it: a name with a directory
\* component names a file whose parent directory does not exist
CanOpenForWrite(name) == ~Contains(name, "/")

\* mutant: the file is opened for appending
WriteFile_Append(fsys, path, data) ==
  [p \in (DOMAIN fsys) \cup {path} |->
     IF p = path THEN (IF path \in DOMAIN fsys THEN fsys[path] ELSE <<>>) \o data ELSE fsys[p]]

WriteFile(fsys, path, data) ==
  [p \in (DOMAIN fsys) \cup {path} |-> IF p = path THEN data ELSE fsys[p]]

\* mutant: the prefix test is left out
HasDataPrefix_Any(url) == TRUE

\* url.startswith("data:")
HasDataPrefix(url) == url # <<>> /\ url[1] = "data:"

\* the body of the for loop: the entries it appends to saved (none or one)
\* and the file system it leaves
DecodeBody(att, fsys) ==
  LET name == IF att.name # <<>> THEN att.name ELSE <<"attachment">>
      url == att.url
      dropped == [out |-> <<>>, fs |-> fsys]
  IN IF ~HasDataPrefix(url) THEN dropped
     ELSE LET sp == Split1(url, ",") IN
       IF Len(sp) # 2 THEN dropped
       ELSE LET header == sp[1]
                b64data == sp[2]
                mime == Without(Split(header, ";")[1], "data:")
                dec == b64decode(b64data)
                path == PathJoin(TMP_DIR, name)
            IN IF ~dec.ok THEN dropped
               ELSE IF ~CanOpenForWrite(name) THEN dropped
               ELSE [out |-> << [name |-> name, path |-> path, mime |-> mime,
                                 size |-> Len(dec.data)] >>,
                     fs |-> WriteFile(fsys, path, dec.data)]

(* ----------------------- summarize_attachment_meta --------------------- *)
PREVIEW_LIMIT == 1000
CSV_LINES == 3
TEXT_EXTENSIONS == {".md", ".txt", ".json", ".csv"}

EndsWithAny(nm, exts) == nm # <<>> /\ nm[Len(nm)] \in exts

ReadLine(rest) == IF Contains(rest, NL) THEN Take(rest, IndexOf(rest, NL)) ELSE rest

RECURSIVE CountLines(_)
CountLines(rest) ==
  IF rest = <<>> THEN 0 ELSE 1 + CountLines(Drop(rest, Len(ReadLine(rest))))

\* str.replace("\n", "\\n")
RECURSIVE EscapeNewlines(_)
EscapeNewlines(s) ==
  IF s = <<>> THEN <<>>
  ELSE <<IF Head(s) = NL THEN ESC_NL ELSE Head(s)>> \o EscapeNewlines(Tail(s))

\* s[:n] counted in characters: every lexeme of a file's text is one
\* character, except the two-character escape
RECURSIVE TakeChars(_, _)
TakeChars(s, n) ==
  IF s = <<>> \/ n <= 0 THEN <<>>
  ELSE IF Head(s) = ESC_NL
       THEN IF n = 1 THEN <<"\\">> ELSE <<ESC_NL>> \o TakeChars(Tail(s), n - 2)
       ELSE <<Head(s)>> \o TakeChars(Tail(s), n - 1)

\* the .csv branch.  The generator inside range(...) reads the file to its
\* end to count the lines, so the comprehension starts at end of file:
\* f.tell() is the size of the file, and next(f) raises StopIteration.
CsvPreview(bytes) ==
  LET txt == DecodeUtf8Ignore(bytes)
      n == Min(CSV_LINES, CountLines(txt))
      tell == Len(bytes)
  IN IF n = 0 \/ ~(tell < PREVIEW_LIMIT)
     THEN [ok |-> TRUE, preview |-> Join(ESC_NL, <<>>)]
     ELSE [ok |-> FALSE, preview |-> <<>>]

TextPreview(bytes) ==
  LET data == Take(DecodeUtf8Ignore(bytes), PREVIEW_LIMIT)
  IN [ok |-> TRUE, preview |-> TakeChars(EscapeNewlines(data), PREVIEW_LIMIT)]

\* the body of the for loop: the summary line of one saved entry
SummarizeBody(s, fsys) ==
  LET nm == s.name
      p == s.path
      mime == s.mime
      head == <<"- ">> \o nm \o <<" (">> \o mime
  IN IF (mime # <<>> /\ mime[1] = "text") \/ EndsWithAny(nm, TEXT_EXTENSIONS)
     THEN IF p \notin DOMAIN fsys
          THEN head \o <<"): (could not read preview: ", "[Errno 2] No such file or directory", ")">>
          ELSE LET r == IF EndsWithAny(nm, {".csv"}) THEN CsvPreview(fsys[p])
                        ELSE TextPreview(fsys[p])
               IN IF r.ok THEN head \o <<"): preview: ">> \o r.preview
                  ELSE head \o <<"): (could not read preview: ">> \o <<")">>
     ELSE head \o <<"): ", ToString(s.size), " bytes (Binary file, use as-is or encode to b64 if needed)">>

(* --------------------------- generate_app_code ------------------------- *)
\* a Python value that is a string or None
Str(v) == [t |-> "str", v |-> v]
None == [t |-> "none", v |-> <<>>]

\* truth value of a string-or-None
Truthy(x) == x.t = "str" /\ x.v # <<>>

PREV_README_HEADING == "### Previous README.md:"
REVISE_DIRECTIVE == "Revise and enhance this project according to the new brief below. The code must be modified to satisfy the new requirements."

\* mutant: the round is not tested
ContextNote_AnyRound(rnd, prev) ==
  IF Truthy(prev)
  THEN <<NL, PREV_README_HEADING, NL>> \o prev.v \o <<NL, NL, REVISE_DIRECTIVE, NL>>
  ELSE <<>>

ContextNote(rnd, prev) ==
  IF rnd = 2 /\ Truthy(prev)
  THEN <<NL, PREV_README_HEADING, NL>> \o prev.v \o <<NL, NL, REVISE_DIRECTIVE, NL>>
  ELSE <<>>

RoundStr(rnd) == ToString(rnd)

RECURSIVE QuoteAll(_)
QuoteAll(cs) ==
  IF cs = <<>> THEN <<>> ELSE << <<"'">> \o Head(cs) \o <<"'">> >> \o QuoteAll(Tail(cs))

\* the f-string rendering of the list "checks or []"
ChecksRepr(cs) == <<"[">> \o Join(", ", QuoteAll(cs)) \o <<"]">>

P_HEAD == "\nYou are a professional web developer assistant. You must output a single-file HTML application.\n\n### Round\n"
P_TASK == "\n\n### Task\n"
P_ATTACHMENTS == "\n\n### Attachments (if any)\nThe attached files are available in the repository root. Reference them directly by name (e.g., 'sample.png').\n"
P_CHECKS == "\n\n### Evaluation checks (Ensure the generated app can pass these checks)\n"
P_RULES == "\n\n### Output format rules: (five fixed rules)\n"

UserPrompt(b, rnd, context_note, meta, cs) ==
  <<P_HEAD, RoundStr(rnd), P_TASK>> \o b \o <<NL, NL>> \o context_note
    \o <<P_ATTACHMENTS>> \o meta \o <<P_CHECKS>> \o ChecksRepr(cs) \o <<P_RULES>>

\* outcomes of requests.post / raise_for_status / response.json
FailedResponses ==
  { [kind |-> k, shape |-> "none", text |-> None] :
      k \in {"ConnectionError", "Timeout", "HTTPError", "JSONDecodeError"} }

Body(shape, txt) == [kind |-> "ok", shape |-> shape, text |-> txt]

TextAlphabet == {FENCE, MARKER, "<", NL, "a"}

\* the example of the specification: a fenced markup block with a language
\* tag, the marker, a fenced README
ExampleText ==
  <<FENCE, "html", NL, "<", "p>hi</p>", NL, FENCE, MARKER, FENCE, NL, "# Notes", NL, FENCE>>

LLMTexts == (SeqsUpTo(TextAlphabet, MaxTextLen) \ {<<>>}) \cup {ExampleText}

Responses ==
  FailedResponses
    \cup { Body("no_candidates", None), Body("empty_candidates", None),
           Body("no_text", None), Body("text", None), Body("text", Str(<<>>)) }
    \cup { Body("text", Str(t)) : t \in LLMTexts }

\* the try block: the value of the local "text" when the try statement is left
TextAfterCall(resp) ==
  IF resp.kind # "ok" THEN Str(<<>>)
  ELSE CASE resp.shape = "no_candidates" -> Str(<<>>)
         [] resp.shape = "empty_candidates" -> Str(<<>>)
         [] resp.shape = "no_text" -> Str(<<>>)
         [] OTHER -> resp.text

RECURSIVE FirstNonBlank(_)
FirstNonBlank(parts) ==
  IF parts = <<>> THEN <<>>
  ELSE IF Strip(Head(parts)) # <<>> THEN <<Head(parts)>>
  ELSE FirstNonBlank(Tail(parts))

StripLanguageTag(part) ==
  LET lines == Split1(part, NL)
  IN IF Len(lines) > 1 /\ ~StartsWithLt(Strip(lines[1]))
     THEN Strip(lines[2])
     ELSE Strip(part)

\* mutant: the loop runs over parts instead of parts[1:]
_strip_code_block_AllParts(t) ==
  IF Contains(t, FENCE)
  THEN LET found == FirstNonBlank(Split(t, FENCE))
       IN IF found # <<>> THEN StripLanguageTag(found[1]) ELSE Strip(t)
  ELSE Strip(t)

_strip_code_block(t) ==
  IF Contains(t, FENCE)
  THEN LET found == FirstNonBlank(Tail(Split(t, FENCE)))
       IN IF found # <<>> THEN StripLanguageTag(found[1]) ELSE Strip(t)
  ELSE Strip(t)

FALLBACK_NOTE == "This README was generated as a fallback because the LLM did not return a valid response."

generate_readme_fallback(b, cs, meta, rnd) ==
  LET checks_text == Join(ESC_NL, cs)
      att_text == meta
  IN <<"# Auto-generated README (Round ", RoundStr(rnd), ")\n\n**Project brief:** ">> \o b
       \o <<"\n\n**Attachments:**\n">> \o att_text
       \o <<"\n\n**Checks to meet:**\n">> \o checks_text
       \o <<"\n\n## Setup\n1. Open index.html in a browser.\n2. No build steps required.\n\n## Notes\n",
            FALLBACK_NOTE, NL>>

\* mutant: without the marker the README is taken from the text
ParseResponse_ReadmeFromText(t, fallback_readme) ==
  IF Contains(t, MARKER)
  THEN LET sp == Split1(t, MARKER)
       IN [code |-> _strip_code_block(sp[1]), readme |-> _strip_code_block(sp[2])]
  ELSE [code |-> _strip_code_block(t), readme |-> _strip_code_block(t)]

\* lines 190-197, for a text that is a string
ParseResponse(t, fallback_readme) ==
  IF Contains(t, MARKER)
  THEN LET sp == Split1(t, MARKER)
       IN [code |-> _strip_code_block(sp[1]), readme |-> _strip_code_block(sp[2])]
  ELSE [code |-> _strip_code_block(t), readme |-> fallback_readme]

FallbackHtml(b) ==
  <<NL, "<", "html>\n  <head><title>Fallback App</title></head>\n  <body>\n    <h1>Hello (fallback)</h1>\n    <p>This app was generated as a fallback because the LLM failed to produce valid HTML. Brief: ">>
    \o b \o <<"</p>\n  </body>\n</html>", NL>>

\* mutant: the markup is kept whatever it begins with
ValidateCode_NoFallback(code, b) == code

ValidateCode(code, b) ==
  IF ~StartsWithLt(Strip(code)) THEN FallbackHtml(b) ELSE code

Files(code, readme) == [k \in {"index.html", "README.md"} |-> IF k = "index.html" THEN code ELSE readme]

(* ------------------------------ state machine -------------------------- *)
Briefs == { <<"todo app">>, <<"todo", NL, "list">> }
CheckLists == { <<>>, << <<"c1">>, <<"c2">> >> }
PrevReadmes == { None, Str(<<>>), Str(<<"# Old README">>) }
GenAttachments ==
  { <<>>,
    << Attachment(N_TXT, H_TXT \o <<",", "Y", "Q", "o", "=">>) >>,
    << Attachment(<<>>, H_TXT \o <<",", "Q", "Q">>) >> }

NoResult == [files |-> Files(<<>>, <<>>), attachments |-> <<>>]
NoResponse == [kind |-> "none", shape |-> "none", text |-> None]

Init ==
  /\ call \in {"generate_app_code", "decode_attachments"}
  /\ pc = "decode_attachments"
  /\ IF call = "generate_app_code"
     THEN /\ brief \in Briefs
          /\ attachments \in GenAttachments
          /\ checks \in CheckLists
          /\ round_num \in {1, 2}
          /\ prev_readme \in PrevReadmes
     ELSE /\ brief = <<>>
          /\ attachments \in SeqsUpTo(AttachmentPool, MaxAtts)
          /\ checks = <<>>
          /\ round_num = 1
          /\ prev_readme = None
  /\ i = 1
  /\ saved = <<>>
  /\ fs = <<>>
  /\ j = 1
  /\ summaries = <<>>
  /\ attachments_meta = <<>>
  /\ user_prompt = <<>>
  /\ response = NoResponse
  /\ text = Str(<<>>)
  /\ code_part = <<>>
  /\ readme_part = <<>>
  /\ result = NoResult
  /\ raised = "none"

\* one iteration of the loop of decode_attachments
DecodeStep ==
  /\ pc = "decode_attachments"
  /\ i <= Len(attachments)
  /\ LET r == DecodeBody(attachments[i], fs)
     IN /\ saved' = saved \o r.out
        /\ fs' = r.fs
  /\ i' = i + 1
  /\ UNCHANGED <<call, pc, brief, attachments, checks, round_num, prev_readme, j,
                 summaries, attachments_meta, user_prompt, response, text,
                 code_part, readme_part, result, raised>>

\* decode_attachments returns saved; summarize_attachment_meta(saved) is called
DecodeReturn ==
  /\ pc = "decode_attachments"
  /\ i > Len(attachments)
  /\ pc' = "summarize_attachment_meta"
  /\ j' = 1
  /\ summaries' = <<>>
  /\ UNCHANGED <<call, brief, attachments, checks, round_num, prev_readme, i, saved,
                 fs, attachments_meta, user_prompt, response, text, code_part,
                 readme_part, result, raised>>

\* one iteration of the loop of summarize_attachment_meta
SummarizeStep ==
  /\ pc = "summarize_attachment_meta"
  /\ j <= Len(saved)
  /\ summaries' = Append(summaries, SummarizeBody(saved[j], fs))
  /\ j' = j + 1
  /\ UNCHANGED <<call, pc, brief, attachments, checks, round_num, prev_readme, i,
                 saved, fs, attachments_meta, user_prompt, response, text,
                 code_part, readme_part, result, raised>>

SummarizeReturn ==
  /\ pc = "summarize_attachment_meta"
  /\ j > Len(saved)
  /\ attachments_meta' = Join(ESC_NL, summaries)
  /\ pc' = IF call = "generate_app_code" THEN "BUILD_PROMPT" ELSE "DONE"
  /\ UNCHANGED <<call, brief, attachments, checks, round_num, prev_readme, i, saved,
                 fs, j, summaries, user_prompt, response, text, code_part,
                 readme_part, result, raised>>

BuildPrompt ==
  /\ pc = "BUILD_PROMPT"
  /\ user_prompt' = UserPrompt(brief, round_num, ContextNote(round_num, prev_readme),
                               attachments_meta, checks)
  /\ pc' = "CALL_LLM"
  /\ UNCHANGED <<call, brief, attachments, checks, round_num, prev_readme, i, saved,
                 fs, j, summaries, attachments_meta, response, text, code_part,
                 readme_part, result, raised>>

\* the try statement: every exception raised inside it is caught
CallLLM ==
  /\ pc = "CALL_LLM"
  /\ \E resp \in Responses :
       /\ response' = resp
       /\ text' = TextAfterCall(resp)
  /\ pc' = "PARSE_RESPONSE"
  /\ UNCHANGED <<call, brief, attachments, checks, round_num, prev_readme, i, saved,
                 fs, j, summaries, attachments_meta, user_prompt, code_part,
                 readme_part, result, raised>>

\* lines 190-197; the operator "in" raises TypeError on None
ParseStep ==
  /\ pc = "PARSE_RESPONSE"
  /\ IF text.t # "str"
     THEN /\ pc' = "RAISED"
          /\ raised' = "TypeError"
          /\ UNCHANGED <<code_part, readme_part>>
     ELSE LET r == ParseResponse(text.v, generate_readme_fallback(brief, checks, attachments_meta, round_num))
          IN /\ code_part' = r.code
             /\ readme_part' = r.readme
             /\ pc' = "VALIDATE_CODE"
             /\ UNCHANGED raised
  /\ UNCHANGED <<call, brief, attachments, checks, round_num, prev_readme, i, saved,
                 fs, j, summaries, attachments_meta, user_prompt, response, text,
                 result>>

\* lines 199-212
ValidateStep ==
  /\ pc = "VALIDATE_CODE"
  /\ code_part' = ValidateCode(code_part, brief)
  /\ result' = [files |-> Files(code_part', readme_part), attachments |-> saved]
  /\ pc' = "DONE"
  /\ UNCHANGED <<call, brief, attachments, checks, round_num, prev_readme, i, saved,
                 fs, j, summaries, attachments_meta, user_prompt, response, text,
                 readme_part, raised>>

Next ==
  \/ DecodeStep
  \/ DecodeReturn
  \/ SummarizeStep
  \/ SummarizeReturn
  \/ BuildPrompt
  \/ CallLLM
  \/ ParseStep
  \/ ValidateStep

Spec == Init /\ [][Next]_vars

(* ------------------------- vocabulary of the claims -------------------- *)
Generating == call = "generate_app_code"
Returned == Generating /\ pc = "DONE"
CallLeft == Generating /\ pc \in {"PARSE_RESPONSE", "VALIDATE_CODE", "DONE", "RAISED"}
DecodeHasReturned == pc # "decode_attachments"
SummarizeHasReturned == pc \notin {"decode_attachments", "summarize_attachment_meta"}
PromptBuilt == Generating /\ pc \in {"CALL_LLM", "PARSE_RESPONSE", "VALIDATE_CODE", "DONE", "RAISED"}
Parsed == Generating /\ pc = "VALIDATE_CODE"

IndexHtml == result.files["index.html"]
ReadmeMd == result.files["README.md"]
FallbackReadme == generate_readme_fallback(brief, checks, attachments_meta, round_num)

\* the remote call came back with a non-empty generated text
GotText == response.kind = "ok" /\ response.shape = "text" /\ Truthy(response.text)

\* the markup payload extracted from the generated text
ExtractedMarkup == ParseResponse(text.v, <<>>).code

(* ------------------------------- C1 ------------------------------------ *)
\* C1: every call of generate_app_code returns without raising, whatever the
\* outcome of attachment decoding, preview reading and the remote call, and
\* the value returned is {files: {index.html, README.md}, attachments: the
\* list returned by decode_attachments}.
C1_NeverRaises ==
  Generating =>
    /\ pc # "RAISED"
    /\ raised = "none"
    /\ pc = "DONE" =>
         /\ DOMAIN result = {"files", "attachments"}
         /\ DOMAIN result.files = {"index.html", "README.md"}
         /\ result.attachments = saved

(* ------------------------------- C2 ------------------------------------ *)
\* C2: in every returned result both index.html and README.md are non-empty
\* strings, whatever text the LLM returned.
C2_FilesNonEmpty ==
  Returned => IndexHtml # <<>> /\ ReadmeMd # <<>>

(* ------------------------------- C3 ------------------------------------ *)
\* C3: if the extracted markup, trimmed, does not begin with "<", the final
\* index.html is the fixed fallback document embedding the brief; if it
\* does, the final index.html is the extracted markup unchanged; so the
\* returned index.html, trimmed, always begins with "<".
C3_ValidateCode ==
  Returned =>
    /\ IF StartsWithLt(Strip(ExtractedMarkup))
       THEN IndexHtml = ExtractedMarkup
       ELSE IndexHtml = FallbackHtml(brief) /\ ContainsSeq(IndexHtml, brief)
    /\ StartsWithLt(Strip(IndexHtml))

C3_Witness ==
  /\ Returned
  /\ GotText
  /\ ~StartsWithLt(Strip(ExtractedMarkup))
  /\ IndexHtml = FallbackHtml(brief)

(* ------------------------------- C4 ------------------------------------ *)
\* the three failures of the remote call: transport failure or timeout, a
\* non-2xx status, a 2xx response whose body yields an empty or absent
\* candidates[0].content.parts[0].text
RemoteCallFailed ==
  \/ response.kind \in {"ConnectionError", "Timeout", "HTTPError"}
  \/ /\ response.kind = "ok"
     /\ \/ response.shape \in {"no_candidates", "empty_candidates", "no_text"}
        \/ response.shape = "text" /\ ~Truthy(response.text)

\* C4: when the remote call fails in one of the three listed ways,
\* generate_app_code raises nothing, index.html is the fixed fallback
\* document containing the brief, and README.md is exactly the output of
\* generate_readme_fallback, containing the fixed fallback note.
C4_FailureFallsBack ==
  (CallLeft /\ RemoteCallFailed) =>
    /\ pc # "RAISED"
    /\ Returned =>
         /\ IndexHtml = FallbackHtml(brief)
         /\ ContainsSeq(IndexHtml, brief)
         /\ ReadmeMd = FallbackReadme
         /\ Contains(ReadmeMd, FALLBACK_NOTE)

(* ------------------------------- C5 ------------------------------------ *)
\* C5: for a non-empty LLM text without the marker, the whole text is the
\* code part (code-block stripped, kept as index.html when it begins with
\* "<"), and README.md is exactly the output of generate_readme_fallback.
C5_NoMarker ==
  (Returned /\ GotText /\ ~Contains(text.v, MARKER)) =>
    /\ ReadmeMd = FallbackReadme
    /\ IndexHtml = IF StartsWithLt(_strip_code_block(text.v))
                   THEN _strip_code_block(text.v)
                   ELSE FallbackHtml(brief)

C5_Witness ==
  /\ Returned
  /\ GotText
  /\ ~Contains(text.v, MARKER)
  /\ Contains(text.v, FENCE)
  /\ IndexHtml = <<"<">>
  /\ ReadmeMd = FallbackReadme

(* ------------------------------- C6 ------------------------------------ *)
\* the parts that code-block stripping was applied to, paired with what it
\* returned
StrippedParts ==
  IF Contains(text.v, MARKER)
  THEN { <<Split1(text.v, MARKER)[1], code_part>>, <<Split1(text.v, MARKER)[2], readme_part>> }
  ELSE { <<text.v, code_part>> }

FencePositions(p) == {k \in 1..Len(p) : p[k] = FENCE}

\* the substring from just after the delimiter at f to the next delimiter, or
\* to the end of the part
SegmentAfter(p, f) ==
  LET later == {g \in FencePositions(p) : g > f}
      stop == IF later = {} THEN Len(p) + 1
              ELSE CHOOSE g \in later : \A h \in later : g <= h
  IN SubSeq(p, f + 1, stop - 1)

FirstLine(seg) ==
  IF Contains(seg, NL) THEN SubSeq(seg, 1, IndexOf(seg, NL) - 1) ELSE seg

AfterFirstLine(seg) ==
  IF Contains(seg, NL) THEN Drop(seg, IndexOf(seg, NL)) ELSE <<>>

\* delimiters that open a non-blank substring closed by another delimiter
ClosedNonBlank(p) ==
  {f \in FencePositions(p) : (\E g \in FencePositions(p) : g > f) /\ Strip(SegmentAfter(p, f)) # <<>>}

\* C6 as stated: a part with a delimiter yields the first non-blank substring
\* between consecutive delimiters, its first line dropped whenever that line
\* does not begin with "<", the remainder trimmed; a part without a
\* delimiter yields the part trimmed.
C6_AsStated ==
  Parsed =>
    \A pr \in StrippedParts :
      LET p == pr[1] IN
      IF FencePositions(p) = {} THEN pr[2] = Strip(p)
      ELSE ClosedNonBlank(p) # {} =>
             LET f == CHOOSE f \in ClosedNonBlank(p) : \A g \in ClosedNonBlank(p) : f <= g
                 seg == SegmentAfter(p, f)
             IN pr[2] = IF ~StartsWithLt(FirstLine(seg))
                        THEN Strip(AfterFirstLine(seg))
                        ELSE Strip(seg)

\* delimiters followed by a non-blank substring, closed or not
OpenNonBlank(p) == {f \in FencePositions(p) : Strip(SegmentAfter(p, f)) # <<>>}

\* C6 amended: the substring taken is the first non-blank one that follows a
\* delimiter (closed by a delimiter or by the end of the part); its first
\* line is dropped only when the substring holds a newline and that line,
\* trimmed, does not begin with "<"; when every substring after a delimiter
\* is blank the whole part is returned trimmed, delimiters included.
C6_StripCodeBlock ==
  Parsed =>
    \A pr \in StrippedParts :
      LET p == pr[1] IN
      IF FencePositions(p) = {} \/ OpenNonBlank(p) = {} THEN pr[2] = Strip(p)
      ELSE LET f == CHOOSE f \in OpenNonBlank(p) : \A g \in OpenNonBlank(p) : f <= g
               seg == SegmentAfter(p, f)
           IN pr[2] = IF Contains(seg, NL) /\ ~StartsWithLt(Strip(FirstLine(seg)))
                      THEN Strip(AfterFirstLine(seg))
                      ELSE Strip(seg)

C6_Witness ==
  /\ Parsed
  /\ text.v = ExampleText
  /\ code_part = <<"<", "p>hi</p>">>
  /\ readme_part = <<"# Notes">>

(* ------------------------------- C7, C8 -------------------------------- *)
\* an input attachment that is a data URI and whose parsing, base64
\* decoding and file write all succeed
IsDataUri(att) == att.url # <<>> /\ att.url[1] = "data:"

Base64Part(att) == Drop(att.url, IndexOf(att.url, ","))

Processable(att) ==
  /\ IsDataUri(att)
  /\ Contains(att.url, ",")
  /\ b64decode(Base64Part(att)).ok
  /\ \A k \in 1..Len(att.name) : att.name[k] # "/"

\* the base64-decoded payload of a processable attachment
Payload(att) == b64decode(Base64Part(att)).data

\* positions of the processable attachments of the input, in input order
ProcessableIdx ==
  SelectSeq([k \in 1..Len(attachments) |-> k], LAMBDA k : Processable(attachments[k]))

\* C7 as stated: once decode_attachments has returned, every returned entry
\* has size = length of the decoded payload of its input attachment, and the
\* file at its path holds that payload, also when several attachments carry
\* the same name.
C7_AsStated ==
  DecodeHasReturned =>
    \A k \in 1..Len(saved) :
      k <= Len(ProcessableIdx) =>
        LET att == attachments[ProcessableIdx[k]] IN
        /\ saved[k].size = Len(Payload(att))
        /\ saved[k].path \in DOMAIN fs
        /\ fs[saved[k].path] = Payload(att)

\* C7 amended: the size of every returned entry is the length of the decoded
\* payload of its input attachment; the file at its path holds that payload
\* when no later returned entry has the same path, and otherwise holds the
\* payload of the last returned entry with that path.
C7_SizeAndContent ==
  DecodeHasReturned =>
    /\ Len(saved) = Len(ProcessableIdx)
    /\ \A k \in 1..Len(saved) :
         k <= Len(ProcessableIdx) =>
           LET att == attachments[ProcessableIdx[k]] IN
           /\ saved[k].size = Len(Payload(att))
           /\ saved[k].path \in DOMAIN fs
           /\ (\A m \in (k + 1)..Len(saved) : saved[m].path # saved[k].path)
                => fs[saved[k].path] = Payload(att)

C7_Witness ==
  /\ DecodeHasReturned
  /\ Len(saved) = 2
  /\ saved[1].path = saved[2].path
  /\ saved[1].size # saved[2].size
  /\ fs[saved[2].path] = Payload(attachments[2])

\* C8: decode_attachments returns exactly one entry for each processable
\* input attachment, in input order; an attachment without the data: prefix
\* and an attachment whose parsing, decoding or writing throws yield no
\* entry, do not stop the later attachments, and nothing is raised.
C8_OnePerProcessable ==
  DecodeHasReturned =>
    /\ pc = "summarize_attachment_meta" => raised = "none"
    /\ Len(saved) = Len(ProcessableIdx)
    /\ \A k \in 1..Len(saved) :
         k <= Len(ProcessableIdx) =>
           LET att == attachments[ProcessableIdx[k]] IN
           /\ saved[k].name = (IF att.name = <<>> THEN <<"attachment">> ELSE att.name)
           /\ saved[k].path = <<TMP_DIR, "/">> \o saved[k].name
           /\ saved[k].size = Len(Payload(att))

C8_Witness ==
  /\ DecodeHasReturned
  /\ Len(attachments) = 2
  /\ IsDataUri(attachments[1]) /\ ~Processable(attachments[1])
  /\ Processable(attachments[2])
  /\ Len(saved) = 1
  /\ saved[1].size = Len(Payload(attachments[2]))

(* ------------------------------- C9 ------------------------------------ *)
ReviseSection(prev) ==
  <<PREV_README_HEADING, NL>> \o prev \o <<NL, NL, REVISE_DIRECTIVE>>

\* C9 as stated: a round-2 call with a non-null previousReadme, of any string
\* value, has the revise directive embedding the previous README, and the
\* brief, in its prompt; a round-1 call has neither the directive nor the
\* previous README section in its prompt.
C9_AsStated ==
  PromptBuilt =>
    /\ (round_num = 2 /\ prev_readme.t = "str") =>
         /\ ContainsSeq(user_prompt, ReviseSection(prev_readme.v))
         /\ ContainsSeq(user_prompt, brief)
    /\ round_num = 1 =>
         /\ ~Contains(user_prompt, REVISE_DIRECTIVE)
         /\ ~Contains(user_prompt, PREV_README_HEADING)

\* C9 amended: the round-2 clause holds for a previousReadme that is a
\* non-empty string.
C9_PromptRevision ==
  PromptBuilt =>
    /\ (round_num = 2 /\ prev_readme.t = "str" /\ prev_readme.v # <<>>) =>
         /\ ContainsSeq(user_prompt, ReviseSection(prev_readme.v))
         /\ ContainsSeq(user_prompt, brief)
    /\ round_num = 1 =>
         /\ ~Contains(user_prompt, REVISE_DIRECTIVE)
         /\ ~Contains(user_prompt, PREV_README_HEADING)

C9_Witness ==
  /\ PromptBuilt
  /\ pc = "CALL_LLM"
  /\ round_num = 2
  /\ prev_readme = Str(<<"# Old README">>)
  /\ ContainsSeq(user_prompt, ReviseSection(<<"# Old README">>))

(* ------------------------------- C10 ----------------------------------- *)
TextLike(s) ==
  \/ s.mime # <<>> /\ s.mime[1] = "text"
  \/ s.name # <<>> /\ s.name[Len(s.name)] \in {".md", ".txt", ".json", ".csv"}

IsCsv(s) == s.name # <<>> /\ s.name[Len(s.name)] = ".csv"

\* the lines of a text, without their line ends
RECURSIVE LinesOf(_)
LinesOf(txt) ==
  IF txt = <<>> THEN <<>>
  ELSE IF Contains(txt, NL)
       THEN <<SubSeq(txt, 1, IndexOf(txt, NL) - 1)>> \o LinesOf(Drop(txt, IndexOf(txt, NL)))
       ELSE <<txt>>

\* the preview the claim describes for the file content bytes
ClaimedPreview(s, bytes) ==
  LET first == Take(DecodeUtf8Ignore(Take(bytes, PREVIEW_LIMIT)), PREVIEW_LIMIT)
  IN IF IsCsv(s)
     THEN Join(ESC_NL, Take(LinesOf(first), CSV_LINES))
     ELSE EscapeNewlines(first)

\* C10: a text-like saved entry whose file is readable is summarised as
\* "- name (mime): preview: content", content being the first 1000 bytes
\* with newlines escaped or, for a .csv name, the first up-to-3 lines within
\* the first 1000 bytes joined by the escape; a readable non-empty CSV file
\* never yields an empty preview or a could-not-read notice.
C10_PreviewLine ==
  SummarizeHasReturned =>
    \A k \in 1..Len(saved) :
      (TextLike(saved[k]) /\ saved[k].path \in DOMAIN fs) =>
        LET s == saved[k]
            bytes == fs[s.path]
        IN /\ summaries[k] = <<"- ">> \o s.name \o <<" (">> \o s.mime \o <<"): preview: ">>
                                \o ClaimedPreview(s, bytes)
           /\ (IsCsv(s) /\ bytes # <<>>) => ClaimedPreview(s, bytes) # <<>>

====
